---- MODULE Spec2Model ----
(***************************************************************************)
(* Model of src/app.py: a Streamlit script that clears ./data, extracts an *)
(* uploaded zip archive into it, loads every *.txt file of the directory,  *)
(* trains a nearest-centroid classifier on TF-IDF + truncated-SVD vectors  *)
(* and shows a confusion matrix, two projections and a distance table.     *)
(*                                                                         *)
(* Strings are sequences of one-character strings, so that endswith, split *)
(* and slicing are computed and not assumed.  The reduced feature space is *)
(* one-dimensional and in fixed point: one unit is 10^-6, coordinates are  *)
(* multiples of Scale so that every class mean is an integer number of     *)
(* units, and the Euclidean distance of two points is |x - y|.             *)
(***************************************************************************)
EXTENDS Integers, Sequences, FiniteSets, TLC

\* ---------------------------------------------------------------- bounds
MaxFiles == 3
MaxCoord == 2
MaxConcFiles == 2
MaxStemLen == 3
MaxSamples == 100
MaxErrDocs == 4

\* ------------------------------------------------------ program constants
SvdComponents == 50
TsneDefault == 30
UmapDefault == 15

\* ------------------------------------------------------------- strings
Txt == <<".", "t", "x", "t">>

Desconocido == <<"D", "e", "s", "c", "o", "n", "o", "c", "i", "d", "o">>

\* Unicode code points of the characters the model uses (str comparison).
Ord(c) ==
    CASE c = "." -> 46
      [] c = "D" -> 68
      [] c = "_" -> 95
      [] c = "a" -> 97
      [] c = "b" -> 98
      [] c = "c" -> 99
      [] c = "d" -> 100
      [] c = "e" -> 101
      [] c = "i" -> 105
      [] c = "m" -> 109
      [] c = "n" -> 110
      [] c = "o" -> 111
      [] c = "s" -> 115
      [] c = "t" -> 116
      [] c = "x" -> 120

\* str.endswith
EndsWith(s, suf) ==
    /\ Len(s) >= Len(suf)
    /\ SubSeq(s, Len(s) - Len(suf) + 1, Len(s)) = suf

\* c in s
Contains(s, c) == \E k \in 1..Len(s) : s[k] = c

\* str.split(c) for a one-character separator: a left-to-right scan.
RECURSIVE SplitScan(_, _, _, _)
SplitScan(s, c, i, cur) ==
    IF i > Len(s) THEN <<cur>>
    ELSE IF s[i] = c THEN <<cur>> \o SplitScan(s, c, i + 1, <<>>)
    ELSE SplitScan(s, c, i + 1, Append(cur, s[i]))

Split(s, c) == SplitScan(s, c, 1, <<>>)

\* a < b for str: lexicographic on code points, a proper prefix is smaller.
RECURSIVE StrLess(_, _)
StrLess(a, b) ==
    IF b = <<>> THEN FALSE
    ELSE IF a = <<>> THEN TRUE
    ELSE IF Ord(Head(a)) # Ord(Head(b)) THEN Ord(Head(a)) < Ord(Head(b))
    ELSE StrLess(Tail(a), Tail(b))

\* ------------------------------------------------------------ the loader
\* Mutant: the author is cut at the last underscore (rsplit).
AuthorOfLastUnderscore(filename) ==
    IF Contains(filename, "_")
    THEN LET parts == Split(filename, "_")
             k == Len(filename) - Len(parts[Len(parts)]) - 1
         IN  SubSeq(filename, 1, k)
    ELSE Desconocido

\* lines 45-48: the author label of a file name.
AuthorOf(filename) ==
    IF Contains(filename, "_") THEN Split(filename, "_")[1] ELSE Desconocido

\* line 51: filename[:-4]
DisplayName(filename) ==
    IF Len(filename) >= 4 THEN SubSeq(filename, 1, Len(filename) - 4) ELSE <<>>

\* ----------------------------------------------- archives and ./data
\* The entries an uploaded archive may hold, as they appear at the top level
\* of ./data after extraction: plain files, and the directories that nested
\* members ("d/x.txt") create.
EntryUniverse ==
    { [name |-> <<"a", "_", "a">> \o Txt, kind |-> "file"],
      [name |-> <<"a", "_", "b">> \o Txt, kind |-> "file"],
      [name |-> <<"b", "_", "a", "_", "b">> \o Txt, kind |-> "file"],
      [name |-> <<"c">> \o Txt, kind |-> "file"],
      [name |-> <<"a", "_", "c", ".", "m", "d">>, kind |-> "file"],
      [name |-> <<"d">>, kind |-> "dir"],
      [name |-> <<"d">> \o Txt, kind |-> "dir"] }

EntrySets(k) == { E \in SUBSET EntryUniverse : Cardinality(E) <= k }

\* Two uploads may hold files of the same names and different contents: ver
\* tells one upload's contents from the other's.
UploadIds == {1, 2}

\* An uploaded archive.
Archives == { [ver |-> v, entries |-> E] : v \in UploadIds, E \in EntrySets(MaxFiles) }

\* file_uploader returned None.
NoUpload == [ver |-> 0, entries |-> {}]

\* What extracting archive a writes at the top level of ./data.
Extracted(a) ==
    { [name |-> x.name, kind |-> x.kind,
       ver |-> IF x.kind = "file" THEN a.ver ELSE 0] : x \in a.entries }

NoDataDir == [exists |-> FALSE, entries |-> {}]

\* Mutant: the directory is created when missing and never emptied.
ClearKeepsFiles(d) == [exists |-> TRUE, entries |-> d.entries]

\* lines 20-24: clear_data_folder.
ClearData(d) ==
    IF d.exists
    THEN [exists |-> TRUE, entries |-> {}]     \* rmtree, then makedirs
    ELSE [exists |-> TRUE, entries |-> {}]     \* makedirs

\* lines 29-31: extractall overwrites members of the same name, keeps the rest.
ExtractAll(d, a) ==
    [exists |-> TRUE,
     entries |-> { e \in d.entries : \A x \in a.entries : x.name # e.name }
                 \cup Extracted(a)]

\* Every order of the elements of a set.
RECURSIVE Orders(_)
Orders(S) ==
    IF S = {} THEN { <<>> }
    ELSE UNION { { <<x>> \o rest : rest \in Orders(S \ {x}) } : x \in S }

\* os.listdir: the entries in an arbitrary order.
Listings(d) == Orders(d.entries)

\* One listing, for a reader that keeps only the set of what it has read.
RECURSIVE SomeOrder(_)
SomeOrder(S) ==
    IF S = {} THEN <<>>
    ELSE LET x == CHOOSE x \in S : TRUE IN <<x>> \o SomeOrder(S \ {x})

\* f.read(): the text of a file, identified by the upload and the name.
TextOf(e) == [ver |-> e.ver, name |-> e.name]

EmptyCorpus == [texts |-> <<>>, labels |-> <<>>, filenames |-> <<>>, ok |-> TRUE]

\* Mutant: the label is appended only when the name has an underscore.
RECURSIVE LoadLoopNoElse(_, _, _)
LoadLoopNoElse(ls, i, acc) ==
    IF i > Len(ls) THEN acc
    ELSE LET e == ls[i] IN
         IF EndsWith(e.name, Txt)
         THEN IF e.kind = "dir" THEN [acc EXCEPT !.ok = FALSE]
              ELSE LoadLoopNoElse(ls, i + 1,
                     [texts |-> Append(acc.texts, TextOf(e)),
                      labels |-> IF Contains(e.name, "_")
                                 THEN Append(acc.labels, AuthorOf(e.name))
                                 ELSE acc.labels,
                      filenames |-> Append(acc.filenames, DisplayName(e.name)),
                      ok |-> TRUE])
         ELSE LoadLoopNoElse(ls, i + 1, acc)

\* lines 39-51: the loop over os.listdir; open() of a directory raises.
RECURSIVE LoadLoop(_, _, _)
LoadLoop(ls, i, acc) ==
    IF i > Len(ls) THEN acc
    ELSE LET e == ls[i] IN
         IF EndsWith(e.name, Txt)
         THEN IF e.kind = "dir" THEN [acc EXCEPT !.ok = FALSE]
              ELSE LoadLoop(ls, i + 1,
                     [texts |-> Append(acc.texts, TextOf(e)),
                      labels |-> Append(acc.labels, AuthorOf(e.name)),
                      filenames |-> Append(acc.filenames, DisplayName(e.name)),
                      ok |-> TRUE])
         ELSE LoadLoop(ls, i + 1, acc)

\* lines 39-51 on one listing: what load_and_train_model has read.
LoadCorpus(ls) == LoadLoop(ls, 1, EmptyCorpus)

\* ------------------------------------------------- vectorizer and SVD
RECURSIVE Factorial(_)
Factorial(n) == IF n <= 1 THEN 1 ELSE n * Factorial(n - 1)

\* Coordinates are multiples of Scale units, so class means are whole units.
Scale == Factorial(MaxFiles)

Coords == { Scale * k : k \in 0..MaxCoord }

\* line 54: the number of n-gram terms the vectorizer finds (X.shape[1]);
\* 0 stands for an empty vocabulary.
TermChoices(txts) ==
    IF Len(txts) = 0 THEN {0}
    ELSE {0, SvdComponents - 1, SvdComponents, SvdComponents + 1}

\* line 54: fit_transform raises ValueError on an empty vocabulary.
VectorizerRaises(t) == t = 0

\* line 55: the rank handed to TruncatedSVD.
SvdRank(nDocs, nFeatures) == SvdComponents

\* line 56: fit_transform raises when n_components exceeds the number of
\* features; at equality the outcome depends on the scikit-learn release.
SvdOutcomes(k, nFeatures) ==
    IF k > nFeatures THEN {"raise"}
    ELSE IF k = nFeatures THEN {"raise", "ok"}
    ELSE {"ok"}

\* ---------------------------------------------------- nearest centroid
\* np.unique(labels): the distinct labels in str order (clf.classes_).
RECURSIVE SortSet(_)
SortSet(S) ==
    IF S = {} THEN <<>>
    ELSE LET m == CHOOSE x \in S : \A y \in S \ {x} : StrLess(x, y)
         IN  <<m>> \o SortSet(S \ {m})

Range(s) == { s[i] : i \in 1..Len(s) }

SortedUnique(lbls) == SortSet(Range(lbls))

\* Mutant: a single class is accepted.
FitNeverRaises(nClasses) == FALSE

\* line 59: NearestCentroid.fit raises ValueError with fewer than 2 classes.
FitRaises(nClasses) == nClasses < 2

RECURSIVE SumRows(_, _)
SumRows(X, S) ==
    IF S = {} THEN 0
    ELSE LET i == CHOOSE i \in S : TRUE IN X[i] + SumRows(X, S \ {i})

\* line 59: clf.centroids_, the mean of each class's rows.
Centroids(X, lbls, cls) ==
    [j \in 1..Len(cls) |->
        LET rows == { i \in 1..Len(lbls) : lbls[i] = cls[j] }
        IN  SumRows(X, rows) \div Cardinality(rows)]

Abs(x) == IF x < 0 THEN -x ELSE x

\* Mutant: the last of the equal minima, and the maximum when none is equal.
RECURSIVE ArgMaxScan(_, _, _)
ArgMaxScan(s, i, best) ==
    IF i > Len(s) THEN best
    ELSE IF s[i] > s[best] THEN ArgMaxScan(s, i + 1, i)
    ELSE ArgMaxScan(s, i + 1, best)

ArgMax(s) == ArgMaxScan(s, 2, 1)

\* np.argmin: the first index of the minimum.
RECURSIVE ArgMinScan(_, _, _)
ArgMinScan(s, i, best) ==
    IF i > Len(s) THEN best
    ELSE IF s[i] < s[best] THEN ArgMinScan(s, i + 1, i)
    ELSE ArgMinScan(s, i + 1, best)

ArgMin(s) == ArgMinScan(s, 2, 1)

\* line 103: clf.predict, classes_[pairwise_distances_argmin(X, centroids_)],
\* which compares squared Euclidean distances.
Predict(X, cents, cls) ==
    [i \in 1..Len(X) |->
        cls[ArgMin([j \in 1..Len(cents) |-> (X[i] - cents[j]) * (X[i] - cents[j])])]]

\* line 104 / line 66: confusion_matrix(labels, y_pred, labels=clf.classes_).
ConfusionMatrix(lbls, yp, cls) ==
    [i \in 1..Len(cls) |-> [j \in 1..Len(cls) |->
        Cardinality({ idx \in 1..Len(lbls) : lbls[idx] = cls[i] /\ yp[idx] = cls[j] })]]

\* ------------------------------------------------------- projections
Min2(a, b) == IF a < b THEN a ELSE b

Max2(a, b) == IF a > b THEN a ELSE b

\* line 113
Perplexity(n) == Min2(TsneDefault, Max2(2, n \div 3))

\* line 126
NNeighbors(n) == Min2(UmapDefault, Max2(2, n \div 3))

\* lines 114-115, 127-128: a locality parameter that is not below the number
\* of samples is refused or adjusted, depending on the library release.
ProjectionOutcomes(param, n) == IF param >= n THEN {"raise", "ok"} ELSE {"ok"}

\* ---------------------------------------------------- distance table
\* line 140: cdist(X_reduced, clf.centroids_, metric='euclidean').
Cdist(X, cents) ==
    [i \in 1..Len(X) |-> [j \in 1..Len(cents) |-> Abs(X[i] - cents[j])]]

\* line 148: round(d, 5) of a distance in units of 10^-6, half to even.
Round5(d) ==
    LET q == d \div 10
        r == d % 10
    IN  IF r < 5 THEN 10 * q
        ELSE IF r > 5 THEN 10 * (q + 1)
        ELSE IF q % 2 = 0 THEN 10 * q ELSE 10 * (q + 1)

\* Mutant: the nearest author is taken from the other end of the row.
ClosestAuthorFarthest(drow, cls) == cls[ArgMax(drow)]

\* line 149
ClosestAuthor(drow, cls) == cls[ArgMin(drow)]

\* lines 145-151: one row of the table.
DistanceRow(i, fns, lbls, dist, cls) ==
    [Texto |-> fns[i],
     Autor |-> lbls[i],
     Distancia |-> [j \in 1..Len(cls) |-> Round5(dist[i][j])],
     MasCercano |-> ClosestAuthor(dist[i], cls)]

\* lines 144-151
DistanceTable(fns, lbls, dist, cls) ==
    [i \in 1..Len(fns) |-> DistanceRow(i, fns, lbls, dist, cls)]

RECURSIVE SeqMin(_)
SeqMin(s) ==
    IF Len(s) = 1 THEN s[1] ELSE Min2(s[1], SeqMin(Tail(s)))

RECURSIVE SeqMax(_)
SeqMax(s) ==
    IF Len(s) = 1 THEN s[1] ELSE Max2(s[1], SeqMax(Tail(s)))

\* Mutant: the row maximum is marked.
HighlightMax(s) == [j \in 1..Len(s) |-> s[j] = SeqMax(s)]

\* lines 161-163: True where the cell equals the row minimum.
HighlightMin(s) == [j \in 1..Len(s) |-> s[j] = SeqMin(s)]

\* line 167: highlight_min applied to the distance columns of every row.
Styled(table) == [i \in 1..Len(table) |-> HighlightMin(table[i].Distancia)]

\* ----------------------------------------------------------- evaluator
\* Mutant: the comprehension tests the predicted label only.
RECURSIVE FilesPredictedAs(_, _, _, _, _, _)
FilesPredictedAs(lbls, yp, fns, ci, cj, idx) ==
    IF idx > Len(lbls) THEN <<>>
    ELSE (IF yp[idx] = cj THEN <<fns[idx]>> ELSE <<>>)
         \o FilesPredictedAs(lbls, yp, fns, ci, cj, idx + 1)

\* lines 70-71: the list comprehension, from document idx on.
RECURSIVE FilesFrom(_, _, _, _, _, _)
FilesFrom(lbls, yp, fns, ci, cj, idx) ==
    IF idx > Len(lbls) THEN <<>>
    ELSE (IF lbls[idx] = ci /\ yp[idx] = cj THEN <<fns[idx]>> ELSE <<>>)
         \o FilesFrom(lbls, yp, fns, ci, cj, idx + 1)

\* lines 67-76: the two nested loops, cell p of the matrix in row-major order.
RECURSIVE ErrorsFrom(_, _, _, _, _, _)
ErrorsFrom(lbls, yp, fns, cls, cmx, p) ==
    LET k == Len(cls)
        i == ((p - 1) \div k) + 1
        j == ((p - 1) % k) + 1
    IN  IF p > k * k THEN <<>>
        ELSE (IF i # j /\ cmx[i][j] > 0
              THEN << [true_label |-> cls[i],
                       predicted_label |-> cls[j],
                       misclassified_files |-> FilesFrom(lbls, yp, fns, cls[i], cls[j], 1)] >>
              ELSE <<>>)
             \o ErrorsFrom(lbls, yp, fns, cls, cmx, p + 1)

\* lines 64-77
IdentifyConfusionErrors(lbls, yp, fns, cls) ==
    ErrorsFrom(lbls, yp, fns, cls, ConfusionMatrix(lbls, yp, cls), 1)

\* ============================================================= state
VARIABLES
    pc,              \* the script's position, or "idle" / "done" / "error"
    errorAt,         \* the call that raised, "" when none did
    uploaded,        \* the value file_uploader returns in this run
    data,            \* the ./data directory
    hadStale,        \* history, kept while the loader runs: this run's clear
                     \* removed a .txt file that is not of this run's archive
    texts, labels, filenames,
    nTerms,          \* X.shape[1]
    n_components,    \* the rank handed to TruncatedSVD
    X_reduced,
    classes, centroids,
    y_pred, cm,
    n_samples, perplexity, n_neighbors,
    distances, distance_matrix, styled,
    outputs,         \* what the page shows so far
    errors,          \* the result of identify_confusion_errors
    spc, sup, sloaded, sdisturbed,   \* interleaved sessions
    fname, author, display           \* one iteration of the loader's loop

fsVars == <<uploaded, data, hadStale>>

loadVars == <<texts, labels, filenames>>

featVars == <<nTerms, n_components, X_reduced>>

clfVars == <<classes, centroids>>

evalVars == <<y_pred, cm>>

projVars == <<n_samples, perplexity, n_neighbors>>

tableVars == <<distances, distance_matrix, styled>>

sessVars == <<spc, sup, sloaded, sdisturbed>>

loopVars == <<fname, author, display>>

vars == <<pc, errorAt, fsVars, loadVars, featVars, clfVars, evalVars, projVars,
          tableVars, outputs, errors, sessVars, loopVars>>

\* The script's variables before any statement ran.
ScriptBlank ==
    /\ errorAt = ""
    /\ texts = <<>> /\ labels = <<>> /\ filenames = <<>>
    /\ nTerms = 0 /\ n_components = 0 /\ X_reduced = <<>>
    /\ classes = <<>> /\ centroids = <<>>
    /\ y_pred = <<>> /\ cm = <<>>
    /\ perplexity = 0 /\ n_neighbors = 0
    /\ distances = <<>> /\ distance_matrix = <<>> /\ styled = <<>>
    /\ outputs = {}
    /\ errors = <<>>

\* A fresh run of the script: every script variable is unset again.
ScriptReset ==
    /\ errorAt' = ""
    /\ texts' = <<>> /\ labels' = <<>> /\ filenames' = <<>>
    /\ nTerms' = 0 /\ n_components' = 0 /\ X_reduced' = <<>>
    /\ classes' = <<>> /\ centroids' = <<>>
    /\ y_pred' = <<>> /\ cm' = <<>>
    /\ perplexity' = 0 /\ n_neighbors' = 0
    /\ distances' = <<>> /\ distance_matrix' = <<>> /\ styled' = <<>>
    /\ outputs' = {}
    /\ errors' = <<>>

SessBlank ==
    /\ spc = <<>> /\ sup = <<>> /\ sloaded = <<>> /\ sdisturbed = <<>>

LoopBlank ==
    /\ fname = <<>> /\ author = <<>> /\ display = <<>>

Uploads == Archives \cup {NoUpload}

IsTxtFile(e) == e.kind = "file" /\ EndsWith(e.name, Txt)

\* ============================================== one session, run by run
Init ==
    /\ pc = "start"
    /\ uploaded \in Uploads
    /\ data = NoDataDir
    /\ hadStale = FALSE
    /\ n_samples = 0
    /\ ScriptBlank /\ SessBlank /\ LoopBlank

\* line 26
Clear ==
    /\ pc = "start"
    /\ data' = ClearData(data)
    /\ hadStale' = (\E e \in data.entries : IsTxtFile(e) /\ e \notin Extracted(uploaded))
    /\ pc' = "upload"
    /\ UNCHANGED <<errorAt, uploaded, loadVars, featVars, clfVars, evalVars, projVars,
                   tableVars, outputs, errors, sessVars, loopVars>>

\* line 98, nothing uploaded: the script ends.
NoArchive ==
    /\ pc = "upload"
    /\ uploaded = NoUpload
    /\ pc' = "idle"
    /\ UNCHANGED <<errorAt, fsVars, loadVars, featVars, clfVars, evalVars, projVars,
                   tableVars, outputs, errors, sessVars, loopVars>>

\* line 99
Unzip ==
    /\ pc = "upload"
    /\ uploaded # NoUpload
    /\ data' = ExtractAll(data, uploaded)
    /\ pc' = "load"
    /\ UNCHANGED <<errorAt, uploaded, hadStale, loadVars, featVars, clfVars, evalVars,
                   projVars, tableVars, outputs, errors, sessVars, loopVars>>

\* lines 36-51
Load ==
    /\ pc = "load"
    /\ \E ls \in Listings(data) :
         LET r == LoadCorpus(ls) IN
         IF r.ok
         THEN /\ texts' = r.texts
              /\ labels' = r.labels
              /\ filenames' = r.filenames
              /\ pc' = "vectorize"
              /\ UNCHANGED errorAt
         ELSE /\ pc' = "error"
              /\ errorAt' = "load"
              /\ UNCHANGED <<texts, labels, filenames>>
    /\ UNCHANGED <<fsVars, featVars, clfVars, evalVars, projVars, tableVars, outputs,
                   errors, sessVars, loopVars>>

\* lines 53-54
Vectorize ==
    /\ pc = "vectorize"
    /\ \E t \in TermChoices(texts) :
         /\ nTerms' = t
         /\ IF VectorizerRaises(t)
            THEN pc' = "error" /\ errorAt' = "vectorize"
            ELSE pc' = "svd" /\ UNCHANGED errorAt
    /\ hadStale' = FALSE
    /\ UNCHANGED <<uploaded, data, loadVars, n_components, X_reduced, clfVars, evalVars,
                   projVars, tableVars, outputs, errors, sessVars, loopVars>>

\* lines 55-56
Svd ==
    /\ pc = "svd"
    /\ n_components' = SvdRank(Len(texts), nTerms)
    /\ \E o \in SvdOutcomes(n_components', nTerms) :
         IF o = "raise"
         THEN pc' = "error" /\ errorAt' = "svd" /\ UNCHANGED X_reduced
         ELSE /\ X_reduced' \in [1..Len(texts) -> Coords]
              /\ pc' = "fit"
              /\ UNCHANGED errorAt
    /\ UNCHANGED <<fsVars, loadVars, nTerms, clfVars, evalVars, projVars, tableVars,
                   outputs, errors, sessVars, loopVars>>

\* lines 58-61
Fit ==
    /\ pc = "fit"
    /\ LET cls == SortedUnique(labels) IN
         IF FitRaises(Len(cls))
         THEN pc' = "error" /\ errorAt' = "fit" /\ UNCHANGED clfVars
         ELSE /\ classes' = cls
              /\ centroids' = Centroids(X_reduced, labels, cls)
              /\ pc' = "predict"
              /\ UNCHANGED errorAt
    /\ UNCHANGED <<fsVars, loadVars, featVars, evalVars, projVars, tableVars, outputs,
                   errors, sessVars, loopVars>>

\* lines 102-107
PredictAndConfusion ==
    /\ pc = "predict"
    /\ y_pred' = Predict(X_reduced, centroids, classes)
    /\ cm' = ConfusionMatrix(labels, y_pred', classes)
    /\ outputs' = outputs \cup {"confusion"}
    /\ pc' = "tsne"
    /\ UNCHANGED <<errorAt, fsVars, loadVars, featVars, clfVars, projVars, tableVars,
                   errors, sessVars, loopVars>>

\* lines 110-123
Tsne ==
    /\ pc = "tsne"
    /\ n_samples' = Len(X_reduced)
    /\ perplexity' = Perplexity(n_samples')
    /\ \E o \in ProjectionOutcomes(perplexity', n_samples') :
         IF o = "raise"
         THEN pc' = "error" /\ errorAt' = "tsne" /\ UNCHANGED outputs
         ELSE pc' = "umap" /\ outputs' = outputs \cup {"tsne"} /\ UNCHANGED errorAt
    /\ UNCHANGED <<fsVars, loadVars, featVars, clfVars, evalVars, n_neighbors,
                   tableVars, errors, sessVars, loopVars>>

\* lines 126-136
Umap ==
    /\ pc = "umap"
    /\ n_neighbors' = NNeighbors(n_samples)
    /\ \E o \in ProjectionOutcomes(n_neighbors', n_samples) :
         IF o = "raise"
         THEN pc' = "error" /\ errorAt' = "umap" /\ UNCHANGED outputs
         ELSE pc' = "table" /\ outputs' = outputs \cup {"umap"} /\ UNCHANGED errorAt
    /\ UNCHANGED <<fsVars, loadVars, featVars, clfVars, evalVars, n_samples,
                   perplexity, tableVars, errors, sessVars, loopVars>>

\* lines 139-171
Table ==
    /\ pc = "table"
    /\ distances' = Cdist(X_reduced, centroids)
    /\ distance_matrix' = DistanceTable(filenames, labels, distances', classes)
    /\ styled' = Styled(distance_matrix')
    /\ outputs' = outputs \cup {"table"}
    /\ pc' = "done"
    /\ UNCHANGED <<errorAt, fsVars, loadVars, featVars, clfVars, evalVars, projVars,
                   errors, sessVars, loopVars>>

\* The script run ends (its last line, or an uncaught exception): the run's
\* variables are gone, ./data stays as it is.
End ==
    /\ pc \in {"idle", "done", "error"}
    /\ pc' = "ended"
    /\ hadStale' = FALSE
    /\ n_samples' = 0
    /\ ScriptReset
    /\ UNCHANGED <<uploaded, data, sessVars, loopVars>>

\* The user uploads, replaces or removes the archive: Streamlit runs the script
\* again from its first line.
Rerun ==
    /\ pc = "ended"
    /\ uploaded' \in Uploads
    /\ pc' = "start"
    /\ UNCHANGED <<errorAt, data, hadStale, loadVars, featVars, clfVars, evalVars,
                   projVars, tableVars, outputs, errors, sessVars, loopVars>>

Next ==
    \/ Clear \/ NoArchive \/ Unzip \/ Load \/ Vectorize \/ Svd \/ Fit
    \/ PredictAndConfusion \/ Tsne \/ Umap \/ Table \/ End \/ Rerun

Spec == Init /\ [][Next]_vars

\* =========================================================== properties
\* The run is past the loader's loop (lines 39-51) without an exception.
Loaded ==
    \/ pc \in {"vectorize", "svd", "fit", "predict", "tsne", "umap", "table", "done"}
    \/ pc = "error" /\ errorAt # "load"

\* load_and_train_model has returned (line 100).
Trained ==
    \/ pc \in {"predict", "tsne", "umap", "table", "done"}
    \/ pc = "error" /\ errorAt \in {"tsne", "umap"}

TxtFiles(d) == { e \in d.entries : IsTxtFile(e) }

\* The part of a name before its first underscore, stated by position.
BeforeFirstUnderscore(name) ==
    LET k == CHOOSE k \in 1..Len(name) :
                 name[k] = "_" /\ \A j \in 1..(k - 1) : name[j] # "_"
    IN  SubSeq(name, 1, k - 1)

ExpectedLabel(name) ==
    IF \E k \in 1..Len(name) : name[k] = "_"
    THEN BeforeFirstUnderscore(name)
    ELSE Desconocido

\* C1: row order is preserved end to end.  Once the loader's loop is over,
\* texts, labels and filenames have one entry per .txt file of ./data and
\* entry i of each belongs to the same file (its text, its label, its name
\* without extension); the distance table has one row per loaded document
\* and row i carries the display name and the true label of document i.
C1_RowOrderPreserved ==
    /\ Loaded =>
         /\ Len(texts) = Cardinality(TxtFiles(data))
         /\ Len(labels) = Len(texts)
         /\ Len(filenames) = Len(texts)
         /\ \A i, j \in 1..Len(filenames) : i # j => filenames[i] # filenames[j]
         /\ \A i \in 1..Len(filenames) :
              \E e \in TxtFiles(data) :
                 /\ e.name = filenames[i] \o Txt
                 /\ texts[i] = TextOf(e)
                 /\ labels[i] = ExpectedLabel(e.name)
    /\ pc = "done" =>
         /\ Len(distance_matrix) = Len(filenames)
         /\ \A i \in 1..Len(filenames) :
              /\ distance_matrix[i].Texto = filenames[i]
              /\ distance_matrix[i].Autor = labels[i]

\* C1 witness: a table of three rows whose documents include one without an
\* underscore in its name.
C1_Witness ==
    /\ pc = "done"
    /\ Len(distance_matrix) = 3
    /\ \E i \in 1..3 : distance_matrix[i].Autor = Desconocido

\* C3: in every row of the distance table the nearest label is the label of
\* a centroid at the minimum of the row's distances, and it is the label
\* predict returned for that document, ties included.
C3_NearestIsArgminAndPrediction ==
    pc = "done" =>
        \A i \in 1..Len(distance_matrix) :
            /\ \E j \in 1..Len(classes) :
                 /\ classes[j] = distance_matrix[i].MasCercano
                 /\ \A k \in 1..Len(classes) : distances[i][j] <= distances[i][k]
            /\ distance_matrix[i].MasCercano = y_pred[i]

\* C3 witness: a row in which two centroids are equally distant and nearest.
C3_Witness ==
    /\ pc = "done"
    /\ \E i \in 1..Len(distance_matrix) : \E j, k \in 1..Len(classes) :
         /\ j # k
         /\ distances[i][j] = distances[i][k]
         /\ \A m \in 1..Len(classes) : distances[i][j] <= distances[i][m]

\* C5: in every run of the script, one run after the other, the .txt files
\* the loader has read are exactly the top-level .txt files of the archive
\* uploaded in that run, with that archive's contents.
C5_LoadsOnlyThisUpload ==
    Loaded =>
        { [name |-> filenames[i] \o Txt, text |-> texts[i]] : i \in 1..Len(filenames) }
        = { [name |-> e.name, text |-> TextOf(e)] : e \in TxtFiles([entries |-> Extracted(uploaded)]) }

\* C5 witness: the loader has read files in a run whose clear removed a .txt
\* file that an earlier run had extracted and this run's archive does not hold.
C5_Witness ==
    /\ pc = "vectorize"
    /\ hadStale
    /\ Len(filenames) >= 1

\* C7 (as claimed): the rank handed to the factorization is at most the number
\* of documents and at most the number of terms, and the factorization does
\* not fail.
C7_RankClamped ==
    /\ n_components # 0 => n_components <= Len(texts) /\ n_components <= nTerms
    /\ errorAt # "svd"

\* C8: with fewer than 2 documents or fewer than 2 distinct labels the run
\* shows nothing and never gets past load_and_train_model.
C8_SmallCorpusAborts ==
    (Len(labels) < 2 \/ Cardinality(Range(labels)) < 2) =>
        /\ outputs = {}
        /\ ~Trained

\* C8 witness: two or more documents of one author, refused by the classifier.
C8_Witness ==
    /\ pc = "error"
    /\ errorAt = "fit"
    /\ Len(labels) >= 2
    /\ outputs = {}

\* C10: in every row of the displayed table the cell of the author named in
\* 'Mas cercano' is highlighted.
C10_NearestCellHighlighted ==
    pc = "done" =>
        \A i \in 1..Len(distance_matrix) :
            \E j \in 1..Len(classes) :
                /\ classes[j] = distance_matrix[i].MasCercano
                /\ styled[i][j]

\* C10 witness: a row with two highlighted cells whose unrounded distances
\* differ (a tie made by rounding).
C10_Witness ==
    /\ pc = "done"
    /\ \E i \in 1..Len(distance_matrix) : \E j, k \in 1..Len(classes) :
         /\ styled[i][j] /\ styled[i][k]
         /\ distances[i][j] < distances[i][k]

\* ================================= the loader's loop body on one name
mainVars == <<errorAt, fsVars, loadVars, featVars, clfVars, evalVars, projVars,
              tableVars, outputs, errors>>

MainBlank ==
    /\ uploaded = NoUpload /\ data = NoDataDir /\ hadStale = FALSE
    /\ n_samples = 0
    /\ ScriptBlank

Chars == {"a", "b", "_"}

Stems == UNION { [1..n -> Chars] : n \in 0..MaxStemLen }

Extensions == { Txt, <<".", "m", "d">>, <<>> }

EntryNames == { st \o ex : st \in Stems, ex \in Extensions }

InitLabel ==
    /\ pc = "entry"
    /\ fname \in EntryNames
    /\ author = <<>> /\ display = <<>>
    /\ MainBlank /\ SessBlank

\* lines 40-51 for one directory entry that ends in '.txt'
ReadEntry ==
    /\ pc = "entry"
    /\ EndsWith(fname, Txt)
    /\ author' = AuthorOf(fname)
    /\ display' = DisplayName(fname)
    /\ pc' = "read"
    /\ UNCHANGED <<fname, mainVars, sessVars>>

\* line 40 for any other entry
SkipEntry ==
    /\ pc = "entry"
    /\ ~EndsWith(fname, Txt)
    /\ pc' = "skipped"
    /\ UNCHANGED <<loopVars, mainVars, sessVars>>

NextLabel == ReadEntry \/ SkipEntry

SpecLabel == InitLabel /\ [][NextLabel]_vars

\* C2: for every file name ending in '.txt' that the loader reads, the label
\* is the part of the name before its first underscore when the name has an
\* underscore, and the sentinel label when it has none.
C2_LabelIsPrefix ==
    pc = "read" =>
        /\ (\E k \in 1..Len(fname) : fname[k] = "_") =>
              /\ \E k \in 1..Len(fname) :
                   /\ fname[k] = "_"
                   /\ \A j \in 1..(k - 1) : fname[j] # "_"
                   /\ author = SubSeq(fname, 1, k - 1)
        /\ (\A k \in 1..Len(fname) : fname[k] # "_") => author = Desconocido

\* C2 witness: a name with two underscores has been read.
C2_Witness ==
    /\ pc = "read"
    /\ \E j, k \in 1..Len(fname) : j < k /\ fname[j] = "_" /\ fname[k] = "_"

\* ======================================== the locality parameters alone
InitScale ==
    /\ pc = "tsne"
    /\ n_samples \in 2..MaxSamples      \* a fitted classifier has two classes
    /\ uploaded = NoUpload /\ data = NoDataDir /\ hadStale = FALSE
    /\ ScriptBlank /\ SessBlank /\ LoopBlank

\* line 113
TsneParam ==
    /\ pc = "tsne"
    /\ perplexity' = Perplexity(n_samples)
    /\ pc' = "umap"
    /\ UNCHANGED <<errorAt, fsVars, loadVars, featVars, clfVars, evalVars, n_samples,
                   n_neighbors, tableVars, outputs, errors, sessVars, loopVars>>

\* line 126
UmapParam ==
    /\ pc = "umap"
    /\ n_neighbors' = NNeighbors(n_samples)
    /\ pc' = "table"
    /\ UNCHANGED <<errorAt, fsVars, loadVars, featVars, clfVars, evalVars, n_samples,
                   perplexity, tableVars, outputs, errors, sessVars, loopVars>>

NextScale == TsneParam \/ UmapParam

SpecScale == InitScale /\ [][NextScale]_vars

\* C6 (as claimed): for every corpus of n >= 2 documents both locality
\* parameters are at least 2, at most the library default, and strictly
\* smaller than n.
C6_LocalityBelowSamples ==
    (pc = "table" /\ n_samples >= 2) =>
        /\ 2 <= perplexity /\ perplexity <= TsneDefault /\ perplexity < n_samples
        /\ 2 <= n_neighbors /\ n_neighbors <= UmapDefault /\ n_neighbors < n_samples

\* ============================== identify_confusion_errors on its inputs
ErrLabels == { <<"a">>, <<"b">>, Desconocido }

Letters == <<"a", "b", "c", "d", "e", "x", "t", "m">>

\* A display name that the loader gives label lbl, distinct for each i.
NameFor(lbl, i) ==
    IF lbl = Desconocido THEN <<"c", Letters[i]>> ELSE lbl \o <<"_", Letters[i]>>

\* labels as the loader returns them, classes_ of a classifier fitted on them
\* (two classes at least), predictions among classes_.
InitErrors ==
    /\ pc = "evaluate"
    /\ \E n \in 2..MaxErrDocs :
         /\ labels \in [1..n -> ErrLabels]
         /\ y_pred \in [1..n -> ErrLabels]
    /\ Cardinality(Range(labels)) >= 2
    /\ Range(y_pred) \subseteq Range(labels)
    /\ filenames = [i \in 1..Len(labels) |-> NameFor(labels[i], i)]
    /\ classes = SortedUnique(labels)
    /\ errorAt = ""
    /\ uploaded = NoUpload /\ data = NoDataDir /\ hadStale = FALSE
    /\ texts = <<>>
    /\ nTerms = 0 /\ n_components = 0 /\ X_reduced = <<>>
    /\ centroids = <<>> /\ cm = <<>>
    /\ n_samples = 0 /\ perplexity = 0 /\ n_neighbors = 0
    /\ distances = <<>> /\ distance_matrix = <<>> /\ styled = <<>>
    /\ outputs = {} /\ errors = <<>>
    /\ SessBlank /\ LoopBlank

\* lines 64-77
IdentifyErrors ==
    /\ pc = "evaluate"
    /\ cm' = ConfusionMatrix(labels, y_pred, classes)
    /\ errors' = IdentifyConfusionErrors(labels, y_pred, filenames, classes)
    /\ pc' = "evaluated"
    /\ UNCHANGED <<errorAt, fsVars, loadVars, featVars, clfVars, y_pred, projVars,
                   tableVars, outputs, sessVars, loopVars>>

NextErrors == IdentifyErrors

SpecErrors == InitErrors /\ [][NextErrors]_vars

OffDiagonal == { c \in (1..Len(classes)) \X (1..Len(classes)) :
                     c[1] # c[2] /\ cm[c[1]][c[2]] > 0 }

RECURSIVE SumCells(_)
SumCells(S) ==
    IF S = {} THEN 0
    ELSE LET c == CHOOSE c \in S : TRUE IN cm[c[1]][c[2]] + SumCells(S \ {c})

RECURSIVE TotalListed(_)
TotalListed(recs) ==
    IF recs = <<>> THEN 0
    ELSE Len(Head(recs).misclassified_files) + TotalListed(Tail(recs))

\* C4: identify_confusion_errors returns exactly one record per off-diagonal
\* cell with a nonzero count; every listed name is a document of that cell;
\* no document is listed twice, in one record or in two; and the number of
\* listed documents is the sum of the off-diagonal cells, which is the number
\* of documents whose predicted label differs from the true one.
C4_RecordsPartitionErrors ==
    pc = "evaluated" =>
        /\ Len(errors) = Cardinality(OffDiagonal)
        /\ \A c \in OffDiagonal : \E r \in 1..Len(errors) :
              /\ errors[r].true_label = classes[c[1]]
              /\ errors[r].predicted_label = classes[c[2]]
        /\ \A r \in 1..Len(errors) :
              LET fs == errors[r].misclassified_files IN
              /\ \A a, b \in 1..Len(fs) : a # b => fs[a] # fs[b]
              /\ \A a \in 1..Len(fs) : \E idx \in 1..Len(labels) :
                    /\ filenames[idx] = fs[a]
                    /\ labels[idx] = errors[r].true_label
                    /\ y_pred[idx] = errors[r].predicted_label
        /\ \A r, q \in 1..Len(errors) :
              r # q => Range(errors[r].misclassified_files)
                         \cap Range(errors[q].misclassified_files) = {}
        /\ TotalListed(errors) = SumCells(OffDiagonal)
        /\ TotalListed(errors)
             = Cardinality({ idx \in 1..Len(labels) : labels[idx] # y_pred[idx] })

\* C4 witness: two records at least, one of them listing two documents.
C4_Witness ==
    /\ pc = "evaluated"
    /\ Len(errors) >= 2
    /\ \E r \in 1..Len(errors) : Len(errors[r].misclassified_files) >= 2

\* ================================== two sessions on the same ./data
Sessions == {1, 2}

Other(s) == CHOOSE o \in Sessions : o # s

\* The .txt files of an archive, as a load of that archive alone reads them.
OwnTxt(a) ==
    { [name |-> e.name, text |-> TextOf(e)] : e \in TxtFiles([entries |-> Extracted(a)]) }

InitSessions ==
    /\ pc = "sessions"
    /\ data = NoDataDir
    /\ sup \in [Sessions -> Archives]
    /\ \A s \in Sessions : sup[s].ver = s /\ Cardinality(sup[s].entries) <= MaxConcFiles
    /\ spc = [s \in Sessions |-> "start"]
    /\ sloaded = [s \in Sessions |-> {}]
    /\ sdisturbed = [s \in Sessions |-> FALSE]
    /\ uploaded = NoUpload /\ hadStale = FALSE
    /\ n_samples = 0
    /\ ScriptBlank /\ LoopBlank

\* Session s is between its clear and its load.
Exposed(s) == spc[s] \in {"upload", "load"}

Disturb(s) ==
    sdisturbed' = [sdisturbed EXCEPT ![Other(s)] = @ \/ Exposed(Other(s))]

\* line 26 in session s
SClear(s) ==
    /\ spc[s] = "start"
    /\ data' = ClearData(data)
    /\ spc' = [spc EXCEPT ![s] = "upload"]
    /\ Disturb(s)
    /\ UNCHANGED <<pc, errorAt, uploaded, hadStale, loadVars, featVars, clfVars,
                   evalVars, projVars, tableVars, outputs, errors, sup, sloaded,
                   loopVars>>

\* line 99 in session s
SUnzip(s) ==
    /\ spc[s] = "upload"
    /\ data' = ExtractAll(data, sup[s])
    /\ spc' = [spc EXCEPT ![s] = "load"]
    /\ Disturb(s)
    /\ UNCHANGED <<pc, errorAt, uploaded, hadStale, loadVars, featVars, clfVars,
                   evalVars, projVars, tableVars, outputs, errors, sup, sloaded,
                   loopVars>>

\* lines 36-51 in session s, kept as the set of files read: neither that set
\* nor whether open() raises depends on the order of the listing.
SLoad(s) ==
    /\ spc[s] = "load"
    /\ LET r == LoadCorpus(SomeOrder(data.entries)) IN
         IF r.ok
         THEN /\ sloaded' = [sloaded EXCEPT ![s] =
                    { [name |-> r.filenames[i] \o Txt, text |-> r.texts[i]] :
                        i \in 1..Len(r.filenames) }]
              /\ spc' = [spc EXCEPT ![s] = "loaded"]
         ELSE /\ spc' = [spc EXCEPT ![s] = "error"]
              /\ UNCHANGED sloaded
    /\ UNCHANGED <<pc, mainVars, sup, sdisturbed, loopVars>>

NextSessions == \E s \in Sessions : SClear(s) \/ SUnzip(s) \/ SLoad(s)

SpecSessions == InitSessions /\ [][NextSessions]_vars

\* C9: two interleaved sessions can corrupt each other.  A session whose
\* clear, extract and load ran without the other session changing ./data in
\* between loads exactly the .txt files of its own archive; what a session
\* loads differs from its own archive only through such an interleaving, and
\* C9_Witness is a state where it does.
C9_CorruptionOnlyByInterleaving ==
    \A s \in Sessions :
        (spc[s] = "loaded" /\ ~sdisturbed[s]) => sloaded[s] = OwnTxt(sup[s])

\* C9 witness: a session has loaded a set of files that is not the set of
\* .txt files of its own archive.
C9_Witness ==
    \E s \in Sessions : spc[s] = "loaded" /\ sloaded[s] # OwnTxt(sup[s])

====
